---- MODULE Spec2Model ----
(***************************************************************************)
(* Model of the TON wallet account (WalletAccountReadOnlyTon and           *)
(* WalletAccountTon): fee quoting, sending, token transfer, signing and    *)
(* disposal against a ledger client.  Every asynchronous operation is      *)
(* split at its awaits: one action per continuation that JavaScript runs   *)
(* atomically between two ledger calls.                                    *)
(***************************************************************************)
EXTENDS Integers, Sequences, FiniteSets, TLC

\* ---------------------------------------------------------------- bounds
\* Highest seqno the ledger reaches (accepted broadcasts are capped here).
MaxSeqno == 2
\* Each of the four fee components of a simulator reply is in 0..MaxFeeComponent.
MaxFeeComponent == 1
\* The non-zero configured transferMaxFee that Init may choose.
MaxCap == 2

\* ------------------------------------------------------------ small sets
Accounts == {"acct0"}
CallIds == {"c1", "c2"}

Undefined == "undefined"
None == "none"

\* An optional value: absent, or present with value x.
Absent == <<>>
Some(x) == <<x>>

\* Buffer.alloc(64): the 64-byte all-zero placeholder key.
SECRET_KEY_NULL == "null64"
\* keyPair.secretKey of nacl.sign.keyPair.fromSeed: a 64-byte secret key.
DerivedSecretKey == "secret64"

\* transferMaxFee: not configured (undefined), 0, or a positive cap.
TransferMaxFees == {Absent, Some(0), Some(MaxCap)}

\* keyPair.publicKey: the 32-byte public key of the derived key pair.
DerivedPublicKey == "public32"
\* wallet.address.toString({ bounceable: false }) of the v5r1 wallet of that key.
WalletAddress == "UQ-wallet"
\* BIP_44_TON_DERIVATION_PATH_PREFIX + "/" + path
DerivationPath == "m/44'/607'/0'/0/0"

\* The account the manager hands out for the next index: another path,
\* another key pair, another wallet.
NextAccount == "acct2"
NextDerivationPath == "m/44'/607'/0'/0/1"
NextWalletAddress == "UQ-wallet-1"

\* The path and the address an account is constructed with.
PathOf(a) == IF a = NextAccount THEN NextDerivationPath ELSE DerivationPath
AddressOf(a) == IF a = NextAccount THEN NextWalletAddress ELSE WalletAddress

\* Errors an awaited ledger call rejects with: the get method ran into exit
\* code -13 (the contract it was run on does not exist), or anything else.
EXIT_CODE_13 == "Unable to execute get method. Got exit_code: -13"
NetworkError == "network error"
RpcErrors == {EXIT_CODE_13, NetworkError}

\* Amounts a balance read can report.
Balances == {0, 1}

\* The `transactions` field of the indexer's reply: missing, [] or [receipt].
IndexerReplies == {"missing", "empty", "one"}

QuoteOps == {"quoteSendTransaction", "quoteTransfer"}
SendOps == {"sendTransaction", "transfer"}
NativeOps == {"quoteSendTransaction", "sendTransaction"}
TokenOps == {"quoteTransfer", "transfer"}
AsyncOps == QuoteOps \cup SendOps
ReadOps == {"getAddress", "getBalance", "getTokenBalance", "getTransactionReceipt"}

VARIABLES
    config,   \* the configuration object shared by the accounts
    kind,     \* kind[a]: "full" (WalletAccountTon) or "readonly" (WalletAccountReadOnlyTon)
    identity, \* identity[a]: the _address and _path of the account
    keyPair,  \* keyPair[a]: the _keyPair of a full account
    manager,  \* the wallet manager: the accounts it has handed out (_accounts)
    ledger,   \* the on-chain wallet contract as seen through the ledger client
    simulator, \* the fee simulator behind estimateExternalMessageFee
    calls     \* calls[c]: the frame of the invocation running in slot c

vars == <<config, kind, identity, keyPair, manager, ledger, simulator, calls>>

\* ------------------------------------------------------- pure functions

\* nacl.sign.detached accepts only a 64-byte secret key; new Uint8Array(undefined)
\* is empty, so an absent key raises 'bad secret key size'.
KeySizeOk(secretKey) == secretKey # Undefined

\* Variant without the override of _getTransfer in WalletAccountTon: every
\* transfer is signed as the read-only account signs it.
TransferSecretKeyNotOverridden(accountKind, pair) == SECRET_KEY_NULL

\* The secretKey that _getTransfer hands to createTransfer.  A full account
\* overrides _getTransfer, so every operation running on it (the inherited
\* quotes included) uses the account's own key; a read-only account uses the
\* placeholder.
TransferSecretKey(accountKind, pair) ==
    IF accountKind = "full" THEN pair.secretKey ELSE SECRET_KEY_NULL

\* Variant in which the seqno is the one known at construction, not re-read.
GetSeqnoCached(l) == 0

\* const seqno = await this._contract.getSeqno()
GetSeqno(l) == l.seqno

\* this._contract.createTransfer({ secretKey, sendMode, messages: [message], seqno })
CreateTransfer(secretKey, seqno, message) ==
    [seqno |-> seqno, secretKey |-> secretKey, message |-> message]

\* Variant of the sum that leaves the storage fee out.
TransferFeeNoStorage(source_fees) ==
    source_fees.in_fwd_fee + source_fees.gas_fee + source_fees.fwd_fee

\* in_fwd_fee + storage_fee + gas_fee + fwd_fee
TransferFee(source_fees) ==
    source_fees.in_fwd_fee + source_fees.storage_fee + source_fees.gas_fee + source_fees.fwd_fee

SourceFees ==
    [in_fwd_fee : 0..MaxFeeComponent, storage_fee : 0..MaxFeeComponent,
     gas_fee : 0..MaxFeeComponent, fwd_fee : 0..MaxFeeComponent]

\* The replies the fee simulator can give in ledger state l: any, unless the
\* state fixes its fee schedule.
SimulatorReplies(l) == IF l.fees = Absent THEN SourceFees ELSE {l.fees[1]}

\* What estimateExternalMessageFee is called with: the signed transfer as
\* body, and whether the init code and data go with it.
EstimateRequest(call) == [transfer |-> call.transfer[1], init |-> call.init[1]]

\* The replies an estimate request can get: the one the same request got
\* last in this ledger state when the simulator is observed, otherwise any
\* the ledger allows.
EstimateReplies(l, sim, request) ==
    IF sim.observed /\ sim.last # Absent /\ sim.last[1].request = request
    THEN {sim.last[1].reply}
    ELSE SimulatorReplies(l)

\* The simulator after it has served `request` of operation op with `reply`:
\* when observed, it remembers the request it served last in this ledger
\* state, the reply, the fee the operation made of it, and the operations
\* that sent this request.
Served(sim, request, reply, op, fee) ==
    IF ~sim.observed THEN sim
    ELSE IF sim.last # Absent /\ sim.last[1].request = request
         THEN [sim EXCEPT !.last = Some([sim.last[1] EXCEPT !.ops = @ \cup {op}])]
         ELSE [sim EXCEPT !.last = Some([request |-> request, reply |-> reply,
                                         ops |-> {op}, fee |-> fee])]

\* The simulator after the ledger state has changed.
LedgerChanged(sim) == [sim EXCEPT !.last = Absent]

\* Variant of the catch in getTokenBalance that turns every error into 0.
IsAnyError(error) == TRUE

\* error.message.includes('exit_code: -13')
IsExitCode13(error) == error = EXIT_CODE_13

\* Variant of the test on the indexer's reply that only looks for a missing list.
NoTransactionsMissingOnly(transactions) == transactions = "missing"

\* !transactions || transactions.length === 0
NoTransactions(transactions) == transactions \in {"missing", "empty"}

\* Variant of the derivation that hands out one cached secret-key buffer for
\* a seed and path.
SecretKeyBufferCached(a) == DerivationPath

\* The buffer that nacl.sign.keyPair.fromSeed allocates for the secret key of
\* account a: a new one at every derivation, so it is named by the account.
SecretKeyBuffer(a) == a

\* Variant of the guard: the cap compared with > (the boundary value passes).
ExceedsMaxFeeStrict(op, transferMaxFee, fee) ==
    /\ op = "transfer"
    /\ transferMaxFee # Absent
    /\ fee > transferMaxFee[1]

\* Variant of the guard: the cap tested for truthiness (transferMaxFee && ...),
\* under which a cap of 0 counts as not configured.
ExceedsMaxFeeTruthy(op, transferMaxFee, fee) ==
    /\ op = "transfer"
    /\ transferMaxFee # Absent
    /\ transferMaxFee[1] # 0
    /\ fee >= transferMaxFee[1]

\* The guard in front of contract.send, per operation.  transfer compares the
\* fee with the cap (!= undefined, >=); sendTransaction has no guard.
ExceedsMaxFee(op, transferMaxFee, fee) ==
    /\ op = "transfer"
    /\ transferMaxFee # Absent
    /\ fee >= transferMaxFee[1]

\* Variant in which a quote of a native transfer goes on to contract.send too.
BroadcastsOnQuote(op) == op \in SendOps \cup {"quoteSendTransaction"}

\* Whether the operation goes on to contract.send after the fee is known.
Broadcasts(op) == op \in SendOps

\* getContractState: code and data are absent until the wallet is deployed,
\* which its first accepted external message does.
ContractDeployed(l) == l.seqno > 0

\* The ledger accepts an external message only if it carries the current
\* seqno and a valid signature of the wallet's key.
LedgerAccepts(l, transfer) ==
    /\ transfer.seqno = l.seqno
    /\ transfer.secretKey = DerivedSecretKey

\* -------------------------------------------------------------- messages

\* const DUMMY_MESSAGE_VALUE = toNano(0.05)
DUMMY_MESSAGE_VALUE == 50000000
\* 0x0f8a7ea5, the op code of a jetton transfer
JETTON_TRANSFER_OP == 260734629

\* An address string in friendly form names an account and carries the
\* bounceable flag of its encoding; a malformed string names none.
Friendly(account, isBounceable) == [account |-> account, isBounceable |-> isBounceable]
Malformed == [account |-> None, isBounceable |-> FALSE]
\* Address.parseFriendly(to) / Address.parse(to) return (do not throw).
Parses(address) == address.account # None

Recipient == "recipient"
TokenMaster == "token-master"
\* The address the token master computes for the account's jetton wallet.
JettonWalletAddress == "jetton-wallet"

\* The transactions (tx) that quoteSendTransaction and sendTransaction are
\* called with by default: one with a malformed `to`, one well-formed.
Transactions ==
    {[to |-> Malformed, value |-> 1, bounceable |-> Absent],
     [to |-> Friendly(Recipient, TRUE), value |-> 1, bounceable |-> Absent]}

\* Transactions over both encodings of the destination, two values and the
\* three forms of the bounceable option (omitted, true, false).
Values == {1, 2}
AllTransactions ==
    [to : {Malformed, Friendly(Recipient, TRUE), Friendly(Recipient, FALSE)},
     value : Values,
     bounceable : {Absent, Some(TRUE), Some(FALSE)}]

\* The options that quoteTransfer and transfer are called with by default.
TransferOptions ==
    {[token |-> Friendly(TokenMaster, TRUE), recipient |-> Malformed, amount |-> 1],
     [token |-> Friendly(TokenMaster, TRUE), recipient |-> Friendly(Recipient, TRUE), amount |-> 1]}

AllTransferOptions ==
    [token : {Malformed, Friendly(TokenMaster, TRUE)},
     recipient : {Malformed, Friendly(Recipient, TRUE), Friendly(Recipient, FALSE)},
     amount : Values]

\* recipient = Address.parse(recipient) and, in _getJettonWalletAddress,
\* tokenAddress = Address.parse(tokenAddress): both before the first await.
AddressesParse(options) == Parses(options.recipient) /\ Parses(options.token)

\* internal({ ..., body: 'Transfer' }) stores a string body as a comment cell.
Comment(text) == [comment |-> text]

\* Variant of _getTransactionMessage with bounce: bounceable || isBounceable.
GetTransactionMessageOr(tx) ==
    [type |-> "internal", dest |-> tx.to.account, value |-> tx.value,
     bounce |-> IF tx.bounceable # Absent /\ tx.bounceable[1]
                THEN TRUE ELSE tx.to.isBounceable,
     body |-> Comment("Transfer")]

\* _getTransactionMessage({ to, value, bounceable }): an internal message to
\* the account `to` names, carrying value (fromNano then toNano inside
\* internal() give the same amount back), with bounce: bounceable ??
\* isBounceable and the comment 'Transfer' as body.
GetTransactionMessage(tx) ==
    [type |-> "internal", dest |-> tx.to.account, value |-> tx.value,
     bounce |-> IF tx.bounceable # Absent THEN tx.bounceable[1] ELSE tx.to.isBounceable,
     body |-> Comment("Transfer")]

\* The query id _getTokenTransferMessage writes: storeUint(0, 64).
QueryId == 0

\* The body cell of a jetton transfer, field by field as it is stored.
TokenTransferBody(options, address) ==
    [op |-> JETTON_TRANSFER_OP, query_id |-> QueryId, amount |-> options.amount,
     destination |-> options.recipient.account, response_destination |-> address,
     custom_payload |-> FALSE, forward_ton_amount |-> 1, forward_payload |-> None]

\* _getTokenTransferMessage({ token, recipient, amount }) once the jetton
\* wallet address is known: an internal message to the jetton wallet.
GetTokenTransferMessage(options, address, jettonWalletAddress) ==
    [type |-> "internal", dest |-> jettonWalletAddress, value |-> DUMMY_MESSAGE_VALUE,
     bounce |-> TRUE, body |-> TokenTransferBody(options, address)]

\* cell.hash(): the representation hash, different for different cells.
CellHash(cell) == [hash |-> cell]

\* The cell _getMessageHash rebuilds for a message that is not internal:
\* storeUint(2, 2), storeUint(0, 2), storeAddress(dest), storeUint(0, 4),
\* storeBit(false), storeBit(true), storeRef(body).
ExternalInCell(dest, body) ==
    [tag |-> 2, src |-> 0, dest |-> dest, import_fee |-> 0,
     init |-> FALSE, body_in_ref |-> TRUE, ref |-> body]

\* Variant of _getMessageHash that rebuilds the cell for every message.
GetMessageHashOfCell(message) == CellHash(ExternalInCell(message.dest, message.body))

\* _getMessageHash(message)
GetMessageHash(message) ==
    IF message.type = "internal"
    THEN CellHash(message.body)
    ELSE CellHash(ExternalInCell(message.dest, message.body))

\* The messages _getMessageHash is applied to: internal ones and external-in
\* ones, over two destinations, two values, both bounce flags and the bodies
\* of a native and of a token transfer.
Bodies ==
    {Comment("Transfer")} \cup
    {TokenTransferBody(options, "UQ-wallet") :
        options \in {o \in AllTransferOptions : AddressesParse(o)}}
Messages ==
    [type : {"internal"}, dest : {Recipient, JettonWalletAddress}, value : Values,
     bounce : BOOLEAN, body : Bodies]
    \cup [type : {"external-in"}, dest : {Recipient, JettonWalletAddress}, body : Bodies]

\* --------------------------------------------------------------- frames

\* The message of a frame that has not built one yet.
NoMessage == [type |-> None]

IdleCall ==
    [op |-> None, acct |-> None, pc |-> "idle", message |-> NoMessage,
     transfer |-> Absent, ledgerSeqnoAtSign |-> Absent, init |-> Absent,
     fee |-> Absent, result |-> None, rpcs |-> <<>>,
     input |-> Absent, hash |-> Absent,
     failed |-> None, startedDisposed |-> FALSE,
     thrown |-> None, error |-> None, value |-> Absent, transactions |-> None]

Issue(call, rpc) == [call EXCEPT !.pc = rpc, !.rpcs = Append(@, rpc)]

Finish(call, result) == [call EXCEPT !.pc = "done", !.result = result]

\* The awaited ledger call of this frame rejected with `error` (recorded for
\* the checks).
Rejected(call, error) == [call EXCEPT !.failed = call.pc, !.thrown = error]

Count(seq, x) == Cardinality({i \in DOMAIN seq : seq[i] = x})

Methods(accountKind) ==
    IF accountKind = "full"
    THEN AsyncOps \cup ReadOps \cup {"sign", "verify", "dispose"}
    ELSE QuoteOps \cup ReadOps

\* ----------------------------------------------------------------- Init

\* A wallet nothing has been sent from or to: no contract, no funds, no
\* token account; the fee simulator is not tied to a schedule.
FreshLedger == [seqno |-> 0, balance |-> 0, jettonWallet |-> Absent, fees |-> Absent]

\* The fee simulator as the model follows it: when `observed`, `last` holds
\* the last estimate it served in the current ledger state (the request, the
\* reply and, for the checks, the operation that asked and the fee it made of
\* the reply), and the same request gets the same reply again; when not
\* observed, nothing ties one reply to another.
Unobserved == [observed |-> FALSE, last |-> Absent]
Observed == [observed |-> TRUE, last |-> Absent]

\* The wallet manager: whether there is one, the accounts it has handed out
\* in the order of their first request (_accounts), and, for the checks, the
\* accounts it held when its dispose() was called.
NoManager == [present |-> FALSE, accounts |-> <<>>, disposed |-> {}]
WithManager == [present |-> TRUE, accounts |-> <<>>, disposed |-> {}]

\* The state after construction over a ledger in `ledgers`: the accounts in
\* `accounts` constructed directly, or, with a manager, to be constructed by
\* it when they are first asked for.
ConstructedOver(accounts, ledgers, simulators, managers) ==
    /\ config \in [tonClient : BOOLEAN, transferMaxFee : TransferMaxFees]
    /\ kind \in [accounts -> {"full", "readonly"}]
    /\ identity = [a \in accounts |->
                     [address |-> AddressOf(a),
                      path |-> IF kind[a] = "full" THEN PathOf(a) ELSE None]]
    /\ manager \in managers
    /\ simulator \in simulators
    /\ keyPair = [a \in accounts |->
                    IF kind[a] = "full"
                    THEN [secretKey |-> DerivedSecretKey, buffer |-> "intact",
                          publicKey |-> DerivedPublicKey]
                    ELSE [secretKey |-> Undefined, buffer |-> None,
                          publicKey |-> DerivedPublicKey]]
    /\ ledger \in ledgers
    /\ calls = [c \in CallIds |-> IdleCall]

Constructed(accounts, ledgers) ==
    ConstructedOver(accounts, ledgers, {Unobserved}, {NoManager})

Init == Constructed(Accounts, {FreshLedger})

\* ------------------------------------------------- steps of a call frame

\* Variant of the step after the fee: a sending operation that has just got
\* its first quote reads the seqno and builds the transfer a second time
\* before it sends (quote, then rebuild and commit).
AfterFeeRebuild(call, fee) ==
    LET quoted == [call EXCEPT !.fee = Some(fee)] IN
    IF ~Broadcasts(call.op) THEN Finish(quoted, "fee")
    ELSE IF ExceedsMaxFee(call.op, config.transferMaxFee, fee)
         THEN Finish(quoted, "ExceededMaxFee")
         ELSE IF call.fee = Absent THEN Issue(quoted, "getSeqno")
              ELSE Issue(quoted, "send")

\* Variant of the step after the fee in which contract.send is started and
\* not awaited: the operation returns its result at once.
AfterFeeSendNotAwaited(call, fee) ==
    LET quoted == [call EXCEPT !.fee = Some(fee)] IN
    IF ~Broadcasts(call.op) THEN Finish(quoted, "fee")
    ELSE IF ExceedsMaxFee(call.op, config.transferMaxFee, fee)
         THEN Finish(quoted, "ExceededMaxFee")
         ELSE Finish([quoted EXCEPT !.rpcs = Append(@, "send"),
                                    !.hash = Some(GetMessageHash(call.message))],
                     "hash,fee")

\* The frame after _getTransferFee has returned `fee`: a quote returns
\* { fee }; transfer throws when the fee reaches the cap; otherwise the
\* signed transfer goes to contract.send.
AfterFee(call, fee) ==
    LET quoted == [call EXCEPT !.fee = Some(fee)] IN
    IF ~Broadcasts(call.op) THEN Finish(quoted, "fee")
    ELSE IF ExceedsMaxFee(call.op, config.transferMaxFee, fee)
         THEN Finish(quoted, "ExceededMaxFee")
         ELSE Issue(quoted, "send")

\* Variant in which a rejected fee estimate is caught and a fee of 0 is used.
RpcFailedDefaultFee(call) ==
    IF call.pc = "estimateExternalMessageFee"
    THEN AfterFee(call, 0)
    ELSE [Finish(call, "RpcFailure") EXCEPT !.error = call.thrown]

\* Variant in which a rejected contract.send is caught and the operation
\* returns its result all the same.
RpcFailedSendIgnored(call) ==
    IF call.pc = "send"
    THEN Finish(call, "hash,fee")
    ELSE [Finish(call, "RpcFailure") EXCEPT !.error = call.thrown]

\* Variant in which a rejected ledger call is issued a second time before
\* the operation gives up.
RpcFailedRetry(call) ==
    IF Count(call.rpcs, call.pc) < 2
    THEN Issue(call, call.pc)
    ELSE [Finish(call, "RpcFailure") EXCEPT !.error = call.thrown]

\* An awaited ledger call rejects and nothing catches it: the operation
\* rejects with the same error.
RpcFailed(call) == [Finish(call, "RpcFailure") EXCEPT !.error = call.thrown]

\* callGetMethod rejected.  getTokenBalance wraps its two get-method calls in
\* a try whose catch returns 0 for exit code -13 and rethrows the rest; the
\* other operations do not catch.
GetMethodFailed(call) ==
    IF call.op = "getTokenBalance" /\ IsExitCode13(call.thrown)
    THEN Finish([call EXCEPT !.value = Some(0)], "balance")
    ELSE RpcFailed(call)

\* _getJettonWalletAddress has resolved: getTokenBalance goes on to
\* callGetMethod('get_wallet_data'); a token transfer has its message and
\* _getTransfer issues getSeqno.
AfterJettonWalletAddress(call) ==
    IF call.op = "getTokenBalance"
    THEN Issue(call, "get_wallet_data")
    ELSE Issue([call EXCEPT !.message =
                    GetTokenTransferMessage(call.input[1], identity[call.acct].address,
                                            JettonWalletAddress)],
               "getSeqno")

\* getTransactionReceipt after the indexer has replied: null when it lists no
\* transaction, otherwise this._tonClient.getTransactions (a TypeError when
\* the account has no client).
AfterFetch(call, transactions) ==
    LET replied == [call EXCEPT !.transactions = transactions] IN
    IF NoTransactions(transactions) THEN Finish(replied, "null")
    ELSE IF ~config.tonClient THEN Finish(replied, "TypeError")
         ELSE Issue(replied, "getTransactions")

\* Variant of _getTransfer in which createTransfer signs with whatever it is
\* given, without the check of the key size.
AfterSeqnoKeyUnchecked(call, seqno, secretKey) ==
    Issue([call EXCEPT !.transfer = Some(CreateTransfer(secretKey, seqno, call.message))],
          "getContractState")

\* Variant of _getTransfer in which a quote signs with the null placeholder
\* key also on a full account.
AfterSeqnoQuoteNullKey(call, seqno, secretKey) ==
    LET key == IF call.op \in QuoteOps THEN SECRET_KEY_NULL ELSE secretKey IN
    IF ~KeySizeOk(key) THEN Finish(call, "KeySizeError")
    ELSE Issue([call EXCEPT !.transfer = Some(CreateTransfer(key, seqno, call.message))],
               "getContractState")

\* _getTransfer after getSeqno has resolved: createTransfer signs at once,
\* then _getTransferFee starts with getContractState.
AfterSeqno(call, seqno, secretKey) ==
    IF ~KeySizeOk(secretKey) THEN Finish(call, "KeySizeError")
    ELSE Issue([call EXCEPT !.transfer = Some(CreateTransfer(secretKey, seqno, call.message))],
               "getContractState")

\* sodium_memzero(buf): overwrites a buffer in place, and rejects an
\* argument that is not a buffer.
sodium_memzero(pair) ==
    IF pair.secretKey = Undefined
    THEN [threw |-> TRUE, pair |-> pair]
    ELSE [threw |-> FALSE, pair |-> [pair EXCEPT !.buffer = "zeroed"]]

\* Variant of dispose that zeroes the buffer but keeps the reference to it.
KeepSecretKey(pair) == pair

\* Variant of dispose that drops the public key together with the secret key.
ClearKeyPair(pair) == [pair EXCEPT !.secretKey = Undefined, !.publicKey = Undefined]

\* this._keyPair.secretKey = undefined
ClearSecretKey(pair) == [pair EXCEPT !.secretKey = Undefined]

\* -------------------------------------------------------------- actions

\* The accounts in a sequence.
Range(seq) == {seq[i] : i \in DOMAIN seq}

\* The account instances that exist: the ones the manager has constructed so
\* far, or the ones constructed directly.
Instances == IF manager.present THEN Range(manager.accounts) ELSE DOMAIN kind

Idle(c) == calls[c].pc = "idle"

\* A fresh frame; startedDisposed records whether the account's key buffer had
\* already been zeroed when the call was made.
NewCall(a, op) ==
    [IdleCall EXCEPT !.op = op, !.acct = a,
                     !.startedDisposed = (keyPair[a].buffer = "zeroed")]

\* quoteSendTransaction(tx) / sendTransaction(tx) up to the first await on
\* the ledger: the client check, _getTransactionMessage (Address.parseFriendly
\* throws on a malformed `to`), then _getTransfer issues getSeqno.
BeginNative(a, op, tx) ==
    IF ~config.tonClient THEN Finish(NewCall(a, op), "NotConnected")
    ELSE IF ~Parses(tx.to) THEN Finish(NewCall(a, op), "InvalidAddress")
    ELSE Issue([NewCall(a, op) EXCEPT !.input = Some(tx),
                                      !.message = GetTransactionMessage(tx)],
               "getSeqno")

\* Variant of BeginToken without the client check.
BeginTokenUnchecked(a, op, options) ==
    IF ~AddressesParse(options) THEN Finish(NewCall(a, op), "InvalidAddress")
    ELSE Issue([NewCall(a, op) EXCEPT !.input = Some(options)], "callGetMethod")

\* quoteTransfer(options) / transfer(options) up to the first await on the
\* ledger: the client check, Address.parse of recipient and token, then
\* _getJettonWalletAddress issues callGetMethod('get_wallet_address').
BeginToken(a, op, options) ==
    IF ~config.tonClient THEN Finish(NewCall(a, op), "NotConnected")
    ELSE IF ~AddressesParse(options) THEN Finish(NewCall(a, op), "InvalidAddress")
    ELSE Issue([NewCall(a, op) EXCEPT !.input = Some(options)], "callGetMethod")

QuoteSendTransaction(c, a, tx) ==
    /\ Idle(c)
    /\ "quoteSendTransaction" \in Methods(kind[a])
    /\ calls' = [calls EXCEPT ![c] = BeginNative(a, "quoteSendTransaction", tx)]
    /\ UNCHANGED <<config, kind, identity, keyPair, manager, ledger, simulator>>

SendTransaction(c, a, tx) ==
    /\ Idle(c)
    /\ "sendTransaction" \in Methods(kind[a])
    /\ calls' = [calls EXCEPT ![c] = BeginNative(a, "sendTransaction", tx)]
    /\ UNCHANGED <<config, kind, identity, keyPair, manager, ledger, simulator>>

QuoteTransfer(c, a, options) ==
    /\ Idle(c)
    /\ "quoteTransfer" \in Methods(kind[a])
    /\ calls' = [calls EXCEPT ![c] = BeginToken(a, "quoteTransfer", options)]
    /\ UNCHANGED <<config, kind, identity, keyPair, manager, ledger, simulator>>

Transfer(c, a, options) ==
    /\ Idle(c)
    /\ "transfer" \in Methods(kind[a])
    /\ calls' = [calls EXCEPT ![c] = BeginToken(a, "transfer", options)]
    /\ UNCHANGED <<config, kind, identity, keyPair, manager, ledger, simulator>>

\* get_wallet_address resolved: the token-transfer message is built and
\* _getTransfer issues getSeqno.
JettonWalletAddressReturns(c) ==
    /\ calls[c].pc = "callGetMethod"
    /\ calls' = [calls EXCEPT ![c] = AfterJettonWalletAddress(@)]
    /\ UNCHANGED <<config, kind, identity, keyPair, manager, ledger, simulator>>

\* get_wallet_address rejected: with exit code -13 when the token contract
\* does not exist, or with any other error.
JettonWalletAddressFails(c, error) ==
    /\ calls[c].pc = "callGetMethod"
    /\ calls' = [calls EXCEPT ![c] = GetMethodFailed(Rejected(@, error))]
    /\ UNCHANGED <<config, kind, identity, keyPair, manager, ledger, simulator>>

\* getSeqno resolved: createTransfer with the seqno just read.
SeqnoReturns(c) ==
    /\ calls[c].pc = "getSeqno"
    /\ LET a == calls[c].acct IN
       calls' = [calls EXCEPT ![c] =
          AfterSeqno([@ EXCEPT !.ledgerSeqnoAtSign = Some(ledger.seqno)],
                     GetSeqno(ledger), TransferSecretKey(kind[a], keyPair[a]))]
    /\ UNCHANGED <<config, kind, identity, keyPair, manager, ledger, simulator>>

SeqnoFails(c) ==
    /\ calls[c].pc = "getSeqno"
    /\ calls' = [calls EXCEPT ![c] = RpcFailed(Rejected(@, NetworkError))]
    /\ UNCHANGED <<config, kind, identity, keyPair, manager, ledger, simulator>>

\* getContractState resolved: estimateExternalMessageFee is issued, with
\* the init code and data when the wallet has none on chain.
ContractStateReturns(c) ==
    /\ calls[c].pc = "getContractState"
    /\ calls' = [calls EXCEPT ![c] =
          Issue([@ EXCEPT !.init = Some(~ContractDeployed(ledger))], "estimateExternalMessageFee")]
    /\ UNCHANGED <<config, kind, identity, keyPair, manager, ledger, simulator>>

ContractStateFails(c) ==
    /\ calls[c].pc = "getContractState"
    /\ calls' = [calls EXCEPT ![c] = RpcFailed(Rejected(@, NetworkError))]
    /\ UNCHANGED <<config, kind, identity, keyPair, manager, ledger, simulator>>

\* estimateExternalMessageFee resolved with source_fees.
EstimateReturns(c, source_fees) ==
    /\ calls[c].pc = "estimateExternalMessageFee"
    /\ source_fees \in EstimateReplies(ledger, simulator, EstimateRequest(calls[c]))
    /\ calls' = [calls EXCEPT ![c] = AfterFee(@, TransferFee(source_fees))]
    /\ simulator' = Served(simulator, EstimateRequest(calls[c]), source_fees,
                           calls[c].op, TransferFee(source_fees))
    /\ UNCHANGED <<config, kind, identity, keyPair, manager, ledger>>

EstimateFails(c) ==
    /\ calls[c].pc = "estimateExternalMessageFee"
    /\ calls' = [calls EXCEPT ![c] = RpcFailed(Rejected(@, NetworkError))]
    /\ UNCHANGED <<config, kind, identity, keyPair, manager, ledger, simulator>>

\* Variant of the returned hash: the hash of the external message that was
\* broadcast (the signed transfer addressed to the wallet).
HashedTransfer(call) ==
    IF call.transfer = Absent
    THEN [call EXCEPT !.hash = Some(GetMessageHash(call.message))]
    ELSE [call EXCEPT !.hash = Some(CellHash(ExternalInCell(identity[call.acct].address,
                                                              call.transfer[1])))]

\* hash: this._getMessageHash(message), of the message built at the start
\* of the call.
Hashed(call) == [call EXCEPT !.hash = Some(GetMessageHash(call.message))]

\* contract.send resolved: the ledger took the external message, the wallet
\* is deployed if it was not and its seqno advances; the operation returns
\* { hash, fee }.
SendAccepted(c) ==
    /\ calls[c].pc = "send"
    /\ LedgerAccepts(ledger, calls[c].transfer[1])
    /\ ledger.seqno < MaxSeqno
    /\ ledger' = [ledger EXCEPT !.seqno = @ + 1]
    /\ simulator' = LedgerChanged(simulator)
    /\ calls' = [calls EXCEPT ![c] = Finish(Hashed(@), "hash,fee")]
    /\ UNCHANGED <<config, kind, identity, keyPair, manager>>

\* contract.send rejected (a stale seqno, a bad signature, the network).
SendRejected(c) ==
    /\ calls[c].pc = "send"
    /\ calls' = [calls EXCEPT ![c] = RpcFailed(Rejected(@, NetworkError))]
    /\ UNCHANGED <<config, kind, identity, keyPair, manager, ledger, simulator>>

\* sign(message): no await on the way; rejects when the key is absent.
Sign(c, a) ==
    /\ Idle(c)
    /\ "sign" \in Methods(kind[a])
    /\ calls' = [calls EXCEPT ![c] =
          IF KeySizeOk(keyPair[a].secretKey)
          THEN Finish(NewCall(a, "sign"), "signature")
          ELSE Finish(NewCall(a, "sign"), "KeySizeError")]
    /\ UNCHANGED <<config, kind, identity, keyPair, manager, ledger, simulator>>

\* nacl's check of the public key handed to sign.detached.verify.
PublicKeySizeOk(publicKey) == publicKey = DerivedPublicKey

\* verify(message, signature): no await on the way; signVerify reads the
\* public key only and returns whether the signature is genuine.
Verify(c, a, genuine) ==
    /\ Idle(c)
    /\ "verify" \in Methods(kind[a])
    /\ calls' = [calls EXCEPT ![c] =
          IF ~PublicKeySizeOk(keyPair[a].publicKey)
          THEN Finish(NewCall(a, "verify"), "KeySizeError")
          ELSE Finish(NewCall(a, "verify"), IF genuine THEN "true" ELSE "false")]
    /\ UNCHANGED <<config, kind, identity, keyPair, manager, ledger, simulator>>

\* _getMessageHash(message) on its own, for any message.
MessageHash(c, a, message) ==
    /\ Idle(c)
    /\ kind[a] = "full"
    /\ calls' = [calls EXCEPT ![c] =
          Finish(Hashed([NewCall(a, "_getMessageHash") EXCEPT !.message = message]), "hash")]
    /\ UNCHANGED <<config, kind, identity, keyPair, manager, ledger, simulator>>

\* dispose(): synchronous.  The zeroing is seen through every reference to
\* the same buffer.
Dispose(c, a) ==
    /\ Idle(c)
    /\ "dispose" \in Methods(kind[a])
    /\ LET zero == sodium_memzero(keyPair[a]) IN
       IF zero.threw
       THEN /\ calls' = [calls EXCEPT ![c] = Finish(NewCall(a, "dispose"), "TypeError")]
            /\ UNCHANGED keyPair
       ELSE /\ calls' = [calls EXCEPT ![c] = Finish(NewCall(a, "dispose"), "returned")]
            /\ keyPair' = [b \in DOMAIN keyPair |->
                  IF b = a THEN ClearSecretKey(zero.pair)
                  ELSE IF keyPair[b].secretKey # Undefined
                          /\ SecretKeyBuffer(b) = SecretKeyBuffer(a)
                       THEN [keyPair[b] EXCEPT !.buffer = "zeroed"]
                       ELSE keyPair[b]]
    /\ UNCHANGED <<config, kind, identity, manager, ledger, simulator>>

\* account.dispose() applied to the key pairs `pairs`: whether it threw, and
\* the key pairs after it.
AccountDispose(a, pairs) ==
    LET zero == sodium_memzero(pairs[a]) IN
    IF zero.threw THEN [threw |-> TRUE, pairs |-> pairs]
    ELSE [threw |-> FALSE,
          pairs |-> [b \in DOMAIN pairs |->
              IF b = a THEN ClearSecretKey(zero.pair)
              ELSE IF pairs[b].secretKey # Undefined
                      /\ SecretKeyBuffer(b) = SecretKeyBuffer(a)
                   THEN [pairs[b] EXCEPT !.buffer = "zeroed"]
                   ELSE pairs[b]]]

\* The manager's dispose loop over its accounts, in the order they were
\* handed out; an account.dispose() that throws ends it.
RECURSIVE DisposeAll(_, _)
DisposeAll(accounts, pairs) ==
    IF accounts = <<>> THEN [threw |-> FALSE, pairs |-> pairs]
    ELSE LET first == AccountDispose(Head(accounts), pairs) IN
         IF first.threw THEN first
         ELSE DisposeAll(Tail(accounts), first.pairs)


\* WalletManagerTon.getAccount(index) / getAccountByPath(path): the account of
\* that path, kept in _accounts from the first time it is asked for.
ManagerGetAccount(c, a) ==
    /\ Idle(c)
    /\ manager.present
    /\ kind[a] = "full"
    /\ manager' = IF a \in Range(manager.accounts) THEN manager
                  ELSE [manager EXCEPT !.accounts = Append(@, a)]
    /\ calls' = [calls EXCEPT ![c] = Finish(NewCall(a, "getAccount"), "account")]
    /\ UNCHANGED <<config, kind, identity, keyPair, ledger, simulator>>

\* WalletManagerTon.dispose(): disposes the accounts of _accounts one after
\* the other; synchronous.
ManagerDispose(c) ==
    /\ Idle(c)
    /\ manager.present
    /\ LET all == DisposeAll(manager.accounts, keyPair) IN
       /\ keyPair' = all.pairs
       /\ calls' = [calls EXCEPT ![c] =
             Finish([IdleCall EXCEPT !.op = "manager.dispose"],
                    IF all.threw THEN "TypeError" ELSE "returned")]
    /\ manager' = [manager EXCEPT !.disposed = @ \cup Range(manager.accounts)]
    /\ UNCHANGED <<config, kind, identity, ledger, simulator>>

\* getAddress(): the address fixed at construction.
GetAddress(c, a) ==
    /\ Idle(c)
    /\ "getAddress" \in Methods(kind[a])
    /\ calls' = [calls EXCEPT ![c] = Finish(NewCall(a, "getAddress"), identity[a].address)]
    /\ UNCHANGED <<config, kind, identity, keyPair, manager, ledger, simulator>>

\* getBalance(): the client check, then this._contract.getBalance().
GetBalance(c, a) ==
    /\ Idle(c)
    /\ "getBalance" \in Methods(kind[a])
    /\ calls' = [calls EXCEPT ![c] =
          IF ~config.tonClient THEN Finish(NewCall(a, "getBalance"), "NotConnected")
          ELSE Issue(NewCall(a, "getBalance"), "getBalance")]
    /\ UNCHANGED <<config, kind, identity, keyPair, manager, ledger, simulator>>

\* contract.getBalance resolved: return Number(balance), which is exact on
\* the amounts modelled.
BalanceReturns(c) ==
    /\ calls[c].pc = "getBalance"
    /\ calls' = [calls EXCEPT ![c] = Finish([@ EXCEPT !.value = Some(ledger.balance)], "balance")]
    /\ UNCHANGED <<config, kind, identity, keyPair, manager, ledger, simulator>>

BalanceFails(c) ==
    /\ calls[c].pc = "getBalance"
    /\ calls' = [calls EXCEPT ![c] = RpcFailed(Rejected(@, NetworkError))]
    /\ UNCHANGED <<config, kind, identity, keyPair, manager, ledger, simulator>>

\* getTokenBalance(tokenAddress): the client check; then, inside the try,
\* Address.parse (its error has no exit code in it and is rethrown) and
\* callGetMethod('get_wallet_address').
GetTokenBalance(c, a, tokenValid) ==
    /\ Idle(c)
    /\ "getTokenBalance" \in Methods(kind[a])
    /\ calls' = [calls EXCEPT ![c] =
          IF ~config.tonClient THEN Finish(NewCall(a, "getTokenBalance"), "NotConnected")
          ELSE IF ~tokenValid THEN Finish(NewCall(a, "getTokenBalance"), "InvalidAddress")
               ELSE Issue(NewCall(a, "getTokenBalance"), "callGetMethod")]
    /\ UNCHANGED <<config, kind, identity, keyPair, manager, ledger, simulator>>

\* get_wallet_data resolved on an existing token account: stack.readNumber().
WalletDataReturns(c) ==
    /\ calls[c].pc = "get_wallet_data"
    /\ ledger.jettonWallet # Absent
    /\ calls' = [calls EXCEPT ![c] = Finish([@ EXCEPT !.value = ledger.jettonWallet], "balance")]
    /\ UNCHANGED <<config, kind, identity, keyPair, manager, ledger, simulator>>

\* get_wallet_data rejected: with exit code -13 exactly when the token
\* account does not exist, or with any other error.
WalletDataFails(c, error) ==
    /\ calls[c].pc = "get_wallet_data"
    /\ error = EXIT_CODE_13 => ledger.jettonWallet = Absent
    /\ calls' = [calls EXCEPT ![c] = GetMethodFailed(Rejected(@, error))]
    /\ UNCHANGED <<config, kind, identity, keyPair, manager, ledger, simulator>>

\* getTransactionReceipt(hash): no client check; the indexer is fetched first.
GetTransactionReceipt(c, a) ==
    /\ Idle(c)
    /\ "getTransactionReceipt" \in Methods(kind[a])
    /\ calls' = [calls EXCEPT ![c] = Issue(NewCall(a, "getTransactionReceipt"), "fetch")]
    /\ UNCHANGED <<config, kind, identity, keyPair, manager, ledger, simulator>>

\* fetch and response.json() resolved with the indexer's reply.
FetchReturns(c, transactions) ==
    /\ calls[c].pc = "fetch"
    /\ calls' = [calls EXCEPT ![c] = AfterFetch(@, transactions)]
    /\ UNCHANGED <<config, kind, identity, keyPair, manager, ledger, simulator>>

\* fetch or response.json() rejected; the indexer is not the ledger client.
FetchFails(c) ==
    /\ calls[c].pc = "fetch"
    /\ calls' = [calls EXCEPT ![c] = Finish(@, "FetchFailure")]
    /\ UNCHANGED <<config, kind, identity, keyPair, manager, ledger, simulator>>

\* this._tonClient.getTransactions resolved: the first entry is returned.
TransactionsReturn(c) ==
    /\ calls[c].pc = "getTransactions"
    /\ calls' = [calls EXCEPT ![c] = Finish(@, "receipt")]
    /\ UNCHANGED <<config, kind, identity, keyPair, manager, ledger, simulator>>

TransactionsFail(c) ==
    /\ calls[c].pc = "getTransactions"
    /\ calls' = [calls EXCEPT ![c] = RpcFailed(Rejected(@, NetworkError))]
    /\ UNCHANGED <<config, kind, identity, keyPair, manager, ledger, simulator>>

\* The caller takes the settled promise (or the thrown error); the slot is free.
Settle(c) ==
    /\ calls[c].pc = "done"
    /\ calls' = [calls EXCEPT ![c] = IdleCall]
    /\ UNCHANGED <<config, kind, identity, keyPair, manager, ledger, simulator>>

\* A step of slot c in quoting, sending, signing or disposing, the
\* operations called with a transaction of txs or with options of opts.
CallStepOver(c, txs, opts) ==
    \/ \E a \in Instances, tx \in txs :
          \/ QuoteSendTransaction(c, a, tx)
          \/ SendTransaction(c, a, tx)
    \/ \E a \in Instances, options \in opts :
          \/ QuoteTransfer(c, a, options)
          \/ Transfer(c, a, options)
    \/ \E a \in Instances : Sign(c, a) \/ Dispose(c, a)
    \/ JettonWalletAddressReturns(c)
    \/ \E error \in RpcErrors : JettonWalletAddressFails(c, error)
    \/ SeqnoReturns(c)
    \/ SeqnoFails(c)
    \/ ContractStateReturns(c)
    \/ ContractStateFails(c)
    \/ \E source_fees \in SourceFees : EstimateReturns(c, source_fees)
    \/ EstimateFails(c)
    \/ SendAccepted(c)
    \/ SendRejected(c)
    \/ Settle(c)

CallStep(c) == CallStepOver(c, Transactions, TransferOptions)

\* A step of slot c in one of the reading operations.
ReadStep(c) ==
    \/ \E a \in DOMAIN kind :
          \/ GetAddress(c, a)
          \/ GetBalance(c, a)
          \/ GetTransactionReceipt(c, a)
    \/ \E a \in DOMAIN kind, valid \in BOOLEAN : GetTokenBalance(c, a, valid)
    \/ \E a \in DOMAIN kind, genuine \in BOOLEAN : Verify(c, a, genuine)
    \/ BalanceReturns(c)
    \/ BalanceFails(c)
    \/ WalletDataReturns(c)
    \/ \E error \in RpcErrors : WalletDataFails(c, error)
    \/ \E transactions \in IndexerReplies : FetchReturns(c, transactions)
    \/ FetchFails(c)
    \/ TransactionsReturn(c)
    \/ TransactionsFail(c)

\* A step of the wallet manager in slot c.
ManagerStep(c) ==
    \/ \E a \in DOMAIN kind : ManagerGetAccount(c, a)
    \/ ManagerDispose(c)

\* Two invocations at a time on one account of a fresh wallet: the
\* interleavings of quoting, sending, signing and disposing.
Next == \E c \in CallIds : CallStep(c)

Spec == Init /\ [][Next]_vars

\* One invocation at a time (a caller that awaits every call), all the
\* operations of the account, over every ledger the wallet may be found in.
FirstCall == "c1"

Ledgers ==
    [seqno : {0}, balance : Balances,
     jettonWallet : {Absent} \cup {Some(b) : b \in Balances}, fees : {Absent}]

InitSequential == Constructed(Accounts, Ledgers)

NextSequential == CallStep(FirstCall) \/ ReadStep(FirstCall)

SpecSequential == InitSequential /\ [][NextSequential]_vars

\* One invocation at a time over a ledger whose fee simulator follows a
\* fixed schedule.
LedgersWithFees ==
    [seqno : {0}, balance : {0}, jettonWallet : {Absent},
     fees : {Some(source_fees) : source_fees \in SourceFees}]

InitFees == Constructed(Accounts, LedgersWithFees)

NextFees == CallStep(FirstCall)

SpecFees == InitFees /\ [][NextFees]_vars

\* One invocation at a time on either of two accounts constructed from the
\* same seed and path.
TwoAccounts == {"acct0", "acct1"}

InitTwoAccounts == Constructed(TwoAccounts, {FreshLedger})

NextTwoAccounts == CallStep(FirstCall)

SpecTwoAccounts == InitTwoAccounts /\ [][NextTwoAccounts]_vars

\* One invocation at a time on a manager and the accounts of its first two
\* indexes, each usable once the manager has handed it out.  The two wallets are read through the one ledger record: their
\* ledger states are not told apart.
ManagerAccounts == {"acct0", NextAccount}

InitManager == ConstructedOver(ManagerAccounts, {FreshLedger}, {Unobserved}, {WithManager})

NextManager == CallStep(FirstCall) \/ ManagerStep(FirstCall)

SpecManager == InitManager /\ [][NextManager]_vars

\* One invocation at a time on one account, the fee simulator observed.
InitQuotes == ConstructedOver(Accounts, {FreshLedger}, {Observed}, {NoManager})

NextQuotes == CallStep(FirstCall)

SpecQuotes == InitQuotes /\ [][NextQuotes]_vars

\* One call at a time, over every form of transaction and of transfer
\* options, and _getMessageHash over every message.
InitMessages == Constructed(Accounts, {FreshLedger})
NextMessages ==
    \/ CallStepOver(FirstCall, AllTransactions, AllTransferOptions)
    \/ \E a \in Accounts, message \in Messages : MessageHash(FirstCall, a, message)
SpecMessages == InitMessages /\ [][NextMessages]_vars

\* =============================================================== claims

\* Number of contract.send calls the frame has issued.
Broadcast(call) == Count(call.rpcs, "send")

\* The configured cap is reached by the fee the frame obtained.
CapReached(call) ==
    /\ call.fee # Absent
    /\ config.transferMaxFee # Absent
    /\ call.fee[1] >= config.transferMaxFee[1]

\* C1: in transfer, whenever a maximum fee is configured and the estimated
\* fee is greater than or equal to it, the call fails with the
\* exceeded-maximum-fee error and has issued no broadcast; the error is never
\* raised by a call that has issued a broadcast.
C1_TransferCapBeforeBroadcast ==
    \A c \in CallIds :
        LET call == calls[c] IN
        /\ (call.op = "transfer" /\ CapReached(call))
              => /\ call.pc = "done"
                 /\ call.result = "ExceededMaxFee"
                 /\ Broadcast(call) = 0
        /\ call.result = "ExceededMaxFee" => Broadcast(call) = 0

\* C1 witness: a transfer whose fee equals a positive cap has failed with
\* the exceeded-maximum-fee error.
C1_Witness ==
    \E c \in CallIds :
        /\ calls[c].op = "transfer"
        /\ calls[c].result = "ExceededMaxFee"
        /\ config.transferMaxFee = Some(MaxCap)
        /\ calls[c].fee = Some(MaxCap)

\* C2: sendTransaction enforces the cap: with a maximum fee configured and a
\* quoted fee greater than or equal to it, sendTransaction fails with the
\* exceeded-maximum-fee error and never issues the broadcast.
C2_SendTransactionEnforcesCap ==
    \A c \in CallIds :
        LET call == calls[c] IN
        (call.op = "sendTransaction" /\ CapReached(call))
            => /\ call.pc = "done"
               /\ call.result = "ExceededMaxFee"
               /\ Broadcast(call) = 0

\* C3: a maximum fee of 0 is a configured cap: with it, a transfer whose
\* estimated fee is nonzero fails with the exceeded-maximum-fee error, and no
\* such transfer issues a broadcast.
C3_ZeroCapIsACap ==
    \A c \in CallIds :
        LET call == calls[c] IN
        (config.transferMaxFee = Some(0) /\ call.op = "transfer")
            => /\ (call.fee # Absent /\ call.fee[1] # 0)
                     => (call.pc = "done" /\ call.result = "ExceededMaxFee")
               /\ (call.fee = Absent \/ call.fee[1] # 0) => Broadcast(call) = 0

\* C3 witness: with the cap 0, a transfer with a nonzero fee has failed with
\* the exceeded-maximum-fee error.
C3_Witness ==
    \E c \in CallIds :
        /\ config.transferMaxFee = Some(0)
        /\ calls[c].op = "transfer"
        /\ calls[c].fee # Absent /\ calls[c].fee[1] > 0
        /\ calls[c].result = "ExceededMaxFee"


\* Operations that need the account's secret key.
KeyOps == {"sign", "sendTransaction", "transfer"}

\* The account's key has been erased by dispose.
Disposed(a) == keyPair[a].buffer = "zeroed"

\* Once disposed, an account stays unable to sign.
StaysDisposed ==
    \A a \in Accounts :
        (Disposed(a) /\ ~KeySizeOk(keyPair[a].secretKey))
            => (Disposed(a)' /\ ~KeySizeOk(keyPair'[a].secretKey))

\* C4 as stated: once dispose() has returned, every later sign,
\* sendTransaction or transfer on that account fails with the key-size error
\* and issues no broadcast, and the account never leaves Disposed.
C4_DisposedCallsFailWithKeySizeError ==
    /\ [](\A c \in CallIds :
            LET call == calls[c] IN
            (call.startedDisposed /\ call.op \in KeyOps)
                => /\ Broadcast(call) = 0
                   /\ call.pc = "done" => call.result = "KeySizeError")
    /\ [][StaysDisposed]_vars

\* C4 as amended: once dispose() has returned, every later sign,
\* sendTransaction or transfer on that account fails and issues no broadcast
\* and produces no signed transfer; sign fails with the key-size error, and
\* sendTransaction and transfer fail with the key-size error as soon as they
\* reach signing (getSeqno has resolved), the only other failures being the
\* ones raised before signing: not connected, invalid address, a rejected
\* ledger read.  The account never leaves Disposed.
C4_DisposedCallsFail ==
    /\ [](\A c \in CallIds :
            LET call == calls[c] IN
            (call.startedDisposed /\ call.op \in KeyOps)
                => /\ Broadcast(call) = 0
                   /\ call.transfer = Absent
                   /\ call.pc = "done" =>
                        call.result \in {"KeySizeError", "NotConnected",
                                         "InvalidAddress", "RpcFailure"}
                   /\ (call.op = "sign" \/ call.ledgerSeqnoAtSign # Absent)
                        => (call.pc = "done" /\ call.result = "KeySizeError")
                   /\ call.result = "RpcFailure"
                        => call.failed \in {"callGetMethod", "getSeqno"}
                   /\ call.result = "NotConnected" => ~config.tonClient)
    /\ [][StaysDisposed]_vars

\* C4 witness: on a disposed, connected account a transfer and a sign or
\* sendTransaction, both made after dispose, have failed with the key-size error.
C4_Witness ==
    /\ \E c \in CallIds :
          /\ calls[c].startedDisposed
          /\ calls[c].op = "transfer"
          /\ calls[c].result = "KeySizeError"
    /\ \E c \in CallIds :
          /\ calls[c].startedDisposed
          /\ calls[c].op \in {"sign", "sendTransaction"}
          /\ calls[c].result = "KeySizeError"

\* C5: dispose() is idempotent: a second or later call does not throw and
\* leaves the account Disposed.
C5_DisposeTwiceDoesNotThrow ==
    \A c \in CallIds :
        (calls[c].op = "dispose" /\ calls[c].pc = "done")
            => /\ calls[c].result = "returned"
               /\ Disposed(calls[c].acct)
               /\ keyPair[calls[c].acct].secretKey = Undefined

\* The ledger calls that only read or simulate.
ReadRpcs == {"callGetMethod", "getSeqno", "getContractState", "estimateExternalMessageFee"}

\* Some occurrence of rpc x comes before some occurrence of rpc y in the trace.
Precedes(seq, x, y) ==
    \E i, j \in DOMAIN seq : i < j /\ seq[i] = x /\ seq[j] = y

\* The step is taken by a frame that runs (or starts) a quote.
QuoteStep(c) ==
    /\ calls'[c] # calls[c]
    /\ (calls[c].op \in QuoteOps \/ calls'[c].op \in QuoteOps)

\* C6: quoteSendTransaction and quoteTransfer never issue a broadcast, make
\* only read and fee-simulation calls to the ledger, and no step of a quote
\* changes the seqno or any other ledger state.
C6_QuotesOnlyRead ==
    /\ [](\A c \in CallIds :
            calls[c].op \in QuoteOps
                => /\ Broadcast(calls[c]) = 0
                   /\ \A i \in DOMAIN calls[c].rpcs : calls[c].rpcs[i] \in ReadRpcs)
    /\ [][\A c \in CallIds : QuoteStep(c) => ledger' = ledger]_vars

\* C6 witness: a quote has returned its fee on a wallet whose seqno had
\* already advanced, having gone through all its ledger calls.
C6_Witness ==
    \E c \in CallIds :
        /\ calls[c].op = "quoteTransfer"
        /\ calls[c].result = "fee"
        /\ Len(calls[c].rpcs) = 4
        /\ ledger.seqno > 0

\* C7: fee quoting never uses the account's real secret key: on a full
\* account as on a read-only one, the transfer a quote builds is signed with
\* the null key.
C7_QuotesSignWithNullKey ==
    \A c \in CallIds :
        (calls[c].op \in QuoteOps /\ calls[c].transfer # Absent)
            => calls[c].transfer[1].secretKey = SECRET_KEY_NULL

\* C8 as stated: a sendTransaction that broadcasts has built twice, and the
\* seqno its broadcast carries was read after the fee quote.
C8_SendTransactionRebuildsAfterQuote ==
    \A c \in CallIds :
        (calls[c].op = "sendTransaction" /\ Broadcast(calls[c]) >= 1)
            => /\ Count(calls[c].rpcs, "getSeqno") = 2
               /\ Precedes(calls[c].rpcs, "estimateExternalMessageFee", "getSeqno")

\* C8 as amended: a sendTransaction that broadcasts has built once: it read
\* the seqno once, signed once with the real key, obtained the fee for that
\* transfer and sent that same transfer, so the seqno its broadcast carries
\* was read before the fee quote.
C8_SendTransactionSingleBuild ==
    \A c \in CallIds :
        LET call == calls[c] IN
        (call.op = "sendTransaction" /\ Broadcast(call) >= 1)
            => /\ call.rpcs = <<"getSeqno", "getContractState",
                                "estimateExternalMessageFee", "send">>
               /\ call.fee # Absent
               /\ call.transfer # Absent
               /\ call.transfer[1].secretKey = DerivedSecretKey
               /\ call.transfer[1].seqno = call.ledgerSeqnoAtSign[1]

\* C8 witness: a sendTransaction has broadcast and returned { hash, fee }.
C8_Witness ==
    \E c \in CallIds :
        /\ calls[c].op = "sendTransaction"
        /\ calls[c].result = "hash,fee"
        /\ Broadcast(calls[c]) = 1

\* C9: a sendTransaction or transfer that has issued its broadcast obtained
\* a fee estimate first; a rejected ledger call makes the operation fail with
\* that failure, and when it is the fee estimate or a call before it, no fee
\* is substituted and no broadcast is issued.
C9_FeeEstimateBeforeBroadcast ==
    \A c \in CallIds :
        LET call == calls[c] IN
        call.op \in SendOps
            => /\ Broadcast(call) >= 1
                    => /\ call.fee # Absent
                       /\ Precedes(call.rpcs, "estimateExternalMessageFee", "send")
               /\ call.failed # None
                    => (call.pc = "done" /\ call.result = "RpcFailure")
               /\ call.failed \in ReadRpcs
                    => (call.fee = Absent /\ Broadcast(call) = 0)

\* C9 witness: the fee estimate of a transfer was rejected and the transfer
\* failed with it.
C9_Witness ==
    \E c \in CallIds :
        /\ calls[c].op = "transfer"
        /\ calls[c].failed = "estimateExternalMessageFee"
        /\ calls[c].result = "RpcFailure"

\* C10: every transfer a quote, send or transfer invocation builds carries
\* the seqno the ledger held when that invocation signed, read by the one
\* getSeqno of that same invocation, with no other ledger call between the
\* read and the signing; nothing read by an earlier invocation is reused.
C10_SeqnoReadInEachCall ==
    \A c \in CallIds :
        LET call == calls[c] IN
        call.transfer # Absent
            => /\ call.transfer[1].seqno = call.ledgerSeqnoAtSign[1]
               /\ Count(call.rpcs, "getSeqno") = 1
               /\ \E i \in DOMAIN call.rpcs :
                     /\ call.rpcs[i] = "getSeqno"
                     /\ i < Len(call.rpcs)
                     /\ call.rpcs[i + 1] = "getContractState"

\* C10 witness: an invocation made after the seqno had advanced signed with
\* the advanced seqno.
C10_Witness ==
    \E c \in CallIds :
        /\ calls[c].transfer # Absent
        /\ calls[c].transfer[1].seqno = MaxSeqno
        /\ calls[c].op \in AsyncOps

\* The two frames are sends on the same account whose broadcasts carried
\* the same seqno.
SameSeqnoBroadcasts(c, d) ==
    /\ c # d
    /\ calls[c].op \in SendOps /\ calls[d].op \in SendOps
    /\ calls[c].acct = calls[d].acct
    /\ Broadcast(calls[c]) >= 1 /\ Broadcast(calls[d]) >= 1
    /\ calls[c].transfer[1].seqno = calls[d].transfer[1].seqno

\* The frame waits on a broadcast whose seqno the ledger has moved past.
StaleBroadcast(c) ==
    /\ calls[c].pc = "send"
    /\ calls[c].transfer[1].seqno # ledger.seqno

\* C11: two concurrent sendTransaction or transfer calls on one account are
\* not serialized and may both sign with the same seqno; of two broadcasts
\* carrying the same seqno at most one is accepted, and once one is accepted
\* the other can only be rejected, which its caller sees as the failure of
\* the broadcast; a stale broadcast never changes the ledger.
C11_SameSeqnoAtMostOneAccepted ==
    /\ [](\A c, d \in CallIds :
            SameSeqnoBroadcasts(c, d)
                => /\ ~(calls[c].result = "hash,fee" /\ calls[d].result = "hash,fee")
                   /\ (calls[c].result = "hash,fee" /\ calls[d].pc = "done")
                        => /\ calls[d].result = "RpcFailure"
                           /\ calls[d].failed = "send")
    /\ [][\A c \in CallIds :
            (StaleBroadcast(c) /\ calls'[c] # calls[c])
                => /\ calls'[c].pc = "done"
                   /\ calls'[c].result = "RpcFailure"
                   /\ calls'[c].failed = "send"
                   /\ ledger' = ledger]_vars

\* C11 witness: two sends in flight together signed with the same seqno; one
\* was accepted and the other was rejected at its broadcast.
C11_Witness ==
    \E c, d \in CallIds :
        /\ SameSeqnoBroadcasts(c, d)
        /\ calls[c].ledgerSeqnoAtSign = calls[d].ledgerSeqnoAtSign
        /\ calls[c].result = "hash,fee"
        /\ calls[d].result = "RpcFailure"
        /\ calls[d].failed = "send"

\* The step is a call of dispose() in slot c.
DisposeStep(c) == calls[c].pc = "idle" /\ calls'[c].op = "dispose"

\* What a finished getAddress, getBalance or getTokenBalance frame may hold,
\* given the configuration, the account's address and the ledger alone.
ReadOutcomeOk(call) ==
    /\ call.op = "getAddress" => call.result = WalletAddress
    /\ call.op = "getBalance" =>
          \/ call.result = "NotConnected" /\ ~config.tonClient
          \/ call.result = "RpcFailure" /\ config.tonClient
          \/ call.result = "balance" /\ config.tonClient
                /\ call.value = Some(ledger.balance)
    /\ call.op = "getTokenBalance" =>
          \/ call.result = "NotConnected" /\ ~config.tonClient
          \/ call.result \in {"RpcFailure", "InvalidAddress"} /\ config.tonClient
          \/ call.result = "balance" /\ config.tonClient
                /\ call.value \in {Some(0), ledger.jettonWallet}

\* C12: dispose() changes nothing but the private key: the address, the path
\* (and the index, which is read off the path) and the public key of every
\* account, the configuration and the ledger are the same after it as
\* before; getAddress, getBalance and getTokenBalance stay callable on a
\* disposed account, and what they return depends on the address, the
\* configuration and the ledger only.
C12_DisposeChangesOnlyThePrivateKey ==
    /\ [](\A c \in CallIds :
            (calls[c].op \in {"getAddress", "getBalance", "getTokenBalance"}
                /\ calls[c].pc = "done")
                => ReadOutcomeOk(calls[c]))
    /\ [][\A c \in CallIds :
            DisposeStep(c)
                => /\ identity' = identity
                   /\ config' = config /\ kind' = kind /\ ledger' = ledger
                   /\ \A a \in DOMAIN keyPair :
                         keyPair'[a].publicKey = keyPair[a].publicKey]_vars

\* C12 witness: on an account disposed before the call, getBalance has
\* returned the balance the ledger holds.
C12_Witness ==
    \E c \in CallIds :
        /\ calls[c].startedDisposed
        /\ calls[c].op = "getBalance"
        /\ calls[c].result = "balance"
        /\ calls[c].value = Some(1)
        /\ keyPair[calls[c].acct].publicKey = DerivedPublicKey

\* The operations that check for the ledger client.
ClientOps == AsyncOps \cup {"getBalance", "getTokenBalance"}

\* C13: on an account without a ledger client, getBalance, getTokenBalance,
\* quoteSendTransaction, quoteTransfer, sendTransaction and transfer each
\* fail with the not-connected error, having made no ledger or network call;
\* the not-connected error is raised in no other situation.
C13_NotConnectedBeforeAnyCall ==
    \A c \in CallIds :
        LET call == calls[c] IN
        /\ (call.op \in ClientOps /\ ~config.tonClient)
              => /\ call.pc = "done"
                 /\ call.result = "NotConnected"
                 /\ call.rpcs = <<>>
        /\ call.result = "NotConnected"
              => /\ ~config.tonClient
                 /\ call.rpcs = <<>>
                 /\ call.op \in ClientOps

\* C13 witness: a transfer on an account without a client has failed with
\* the not-connected error.
C13_Witness ==
    \E c \in CallIds :
        /\ ~config.tonClient
        /\ calls[c].op = "transfer"
        /\ calls[c].result = "NotConnected"

\* C14: getTokenBalance returns 0 when a ledger read of it fails with exit
\* code -13, which is what the read of a token account that does not exist
\* does, and every other failure (another ledger error, a malformed token
\* address) reaches the caller as it was raised.
C14_TokenBalanceZeroOnExitCode13 ==
    \A c \in CallIds :
        LET call == calls[c] IN
        call.op = "getTokenBalance"
            => /\ call.thrown = EXIT_CODE_13
                    => /\ call.pc = "done"
                       /\ call.result = "balance"
                       /\ call.value = Some(0)
               /\ (call.failed # None /\ call.thrown # EXIT_CODE_13)
                    => /\ call.pc = "done"
                       /\ call.result = "RpcFailure"
                       /\ call.error = call.thrown
               /\ (ledger.jettonWallet = Absent /\ call.result = "balance")
                    => call.value = Some(0)
               /\ call.result = "InvalidAddress" => call.rpcs = <<>>

\* C14 witness: the token account does not exist, get_wallet_data failed
\* with exit code -13 and getTokenBalance returned 0.
C14_Witness ==
    \E c \in CallIds :
        /\ ledger.jettonWallet = Absent
        /\ calls[c].op = "getTokenBalance"
        /\ calls[c].failed = "get_wallet_data"
        /\ calls[c].thrown = EXIT_CODE_13
        /\ calls[c].result = "balance"
        /\ calls[c].value = Some(0)

\* C15: when the sender's token account does not exist, transfer and
\* quoteTransfer build no token transfer: the call fails with an error,
\* returns no fee and issues no broadcast.
C15_MissingTokenAccountFailsTransfer ==
    \A c \in CallIds :
        LET call == calls[c] IN
        (call.op \in TokenOps /\ ledger.jettonWallet = Absent)
            => /\ call.transfer = Absent
               /\ Broadcast(call) = 0
               /\ call.result \notin {"fee", "hash,fee"}

\* C16: getTransactionReceipt returns null whenever the indexing service
\* reports no transaction (the list is missing or empty): it raises nothing
\* and makes no ledger-client call, with or without a client; null is
\* returned in no other case.
C16_NoTransactionGivesNull ==
    \A c \in CallIds :
        LET call == calls[c] IN
        call.op = "getTransactionReceipt"
            => /\ call.transactions \in {"missing", "empty"}
                    => /\ call.pc = "done"
                       /\ call.result = "null"
                       /\ call.rpcs = <<"fetch">>
                       /\ call.failed = None
               /\ call.result = "null" => call.transactions \in {"missing", "empty"}

\* C16 witness: the indexer replied with an empty list and the call returned
\* null on an account that has a client.
C16_Witness ==
    \E c \in CallIds :
        /\ config.tonClient
        /\ calls[c].op = "getTransactionReceipt"
        /\ calls[c].transactions = "empty"
        /\ calls[c].result = "null"

CaughtByTokenBalance(call) ==
    call.op = "getTokenBalance" /\ call.thrown = EXIT_CODE_13

LocalValidationErrors == {"NotConnected", "InvalidAddress", "KeySizeError"}

\* C18: every local validation error (missing client, malformed address,
\* absent or wrongly sized key) is raised before any I/O: a call that has
\* failed with one has issued no ledger or network call.
C18_ValidationBeforeAnyIO ==
    \A c \in CallIds :
        calls[c].result \in LocalValidationErrors => calls[c].rpcs = <<>>

\* C19: the fee that quoteSendTransaction, quoteTransfer, sendTransaction
\* and transfer obtain and return is the sum of in_fwd_fee, storage_fee,
\* gas_fee and fwd_fee of the simulator's reply, each counted once; a call
\* that returns a result has obtained that fee.
C19_FeeIsSumOfSourceFees ==
    \A c \in CallIds :
        LET call == calls[c]
            reply == ledger.fees[1] IN
        /\ call.fee # Absent
              => call.fee[1] = reply.in_fwd_fee + reply.storage_fee
                                  + reply.gas_fee + reply.fwd_fee
        /\ call.result \in {"fee", "hash,fee"}
              => /\ call.fee # Absent
                 /\ Count(call.rpcs, "estimateExternalMessageFee") = 1

\* C19 witness: a sendTransaction has returned { hash, fee } where the reply
\* had a storage fee and nothing else.
C19_Witness ==
    \E c \in CallIds :
        /\ calls[c].op = "sendTransaction"
        /\ calls[c].result = "hash,fee"
        /\ ledger.fees = Some([in_fwd_fee |-> 0, storage_fee |-> 1,
                               gas_fee |-> 0, fwd_fee |-> 0])
        /\ calls[c].fee = Some(1)

\* C20: each account owns its key pair alone: a dispose() on one account
\* leaves the key pair of every other account as it was, an account
\* constructed from the same seed and path included, so that a key buffer
\* is zeroed only in an account that was itself disposed and sign keeps
\* succeeding on the others.
C20_DisposeLeavesOtherAccountsAlone ==
    /\ [](/\ \A a \in DOMAIN keyPair :
               keyPair[a].buffer = "zeroed" <=> (kind[a] = "full" /\ keyPair[a].secretKey = Undefined)
          /\ \A c \in CallIds :
               (calls[c].op = "sign" /\ calls[c].pc = "done")
                   => (calls[c].result = "signature" <=> ~calls[c].startedDisposed))
    /\ [][\A c \in CallIds :
            DisposeStep(c)
                => \A b \in DOMAIN keyPair :
                      b # calls'[c].acct => keyPair'[b] = keyPair[b]]_vars

\* C20 witness: one of two accounts of the same seed and path has been
\* disposed, and a sign on the other one, made afterwards, has succeeded.
C20_Witness ==
    \E c \in CallIds :
        /\ keyPair["acct0"].secretKey = Undefined
        /\ keyPair["acct0"].buffer = "zeroed"
        /\ calls[c].op = "sign"
        /\ calls[c].acct = "acct1"
        /\ calls[c].result = "signature"

QuoteOf(op) == IF op = "sendTransaction" THEN "quoteSendTransaction" ELSE "quoteTransfer"

\* The fee estimate of the sending frame in slot c resolves in this step, and
\* the last request the simulator served, in the ledger state as it still is,
\* came from the matching quote of the same message.
EstimatedAfterQuote(c) ==
    /\ calls[c].op \in SendOps
    /\ calls[c].pc = "estimateExternalMessageFee"
    /\ calls'[c].fee # Absent
    /\ simulator.last # Absent
    /\ QuoteOf(calls[c].op) \in simulator.last[1].ops
    /\ simulator.last[1].request.transfer.message = calls[c].message

\* C22: for the same transaction and an unchanged ledger state, the fee that
\* sendTransaction (transfer) computes and returns is the fee that
\* quoteSendTransaction (quoteTransfer) returned.
C22_SendFeeEqualsQuoteFee ==
    [][\A c \in CallIds :
          EstimatedAfterQuote(c) => calls'[c].fee[1] = simulator.last[1].fee]_vars

\* C22 witness: a sendTransaction is about to broadcast with a non-zero fee
\* that the simulator had given to the quote of the same message before
\* (the wallet already deployed).
C22_Witness ==
    \E c \in CallIds :
        /\ calls[c].op = "sendTransaction"
        /\ calls[c].pc = "send"
        /\ simulator.last # Absent
        /\ simulator.last[1].ops = {"quoteSendTransaction", "sendTransaction"}
        /\ simulator.last[1].request = EstimateRequest(calls[c])
        /\ calls[c].fee = Some(simulator.last[1].fee)
        /\ calls[c].fee[1] > 0
        /\ ledger.seqno > 0

\* C23: a verify attempted on an account after its disposal raises the
\* key-size error and does not return a result.
C23_VerifyFailsAfterDisposal ==
    \A c \in CallIds :
        (calls[c].op = "verify" /\ calls[c].startedDisposed /\ calls[c].pc = "done")
            => calls[c].result = "KeySizeError"

\* C24: the hash _getMessageHash returns is selected by the message class:
\* for an internal message the hash of the body cell alone, whatever its
\* destination, value, bounce flag or seqno; for any other message the hash
\* of the rebuilt cell (tag, no-source tag, destination, zero import fee,
\* false bit, true bit, body as reference).
C24_HashSelectedByMessageClass ==
    \A c \in CallIds :
        calls[c].hash # Absent =>
            LET message == calls[c].message IN
            /\ message.type = "internal" => calls[c].hash[1] = [hash |-> message.body]
            /\ message.type # "internal" =>
                  calls[c].hash[1] =
                      [hash |-> [tag |-> 2, src |-> 0, dest |-> message.dest, import_fee |-> 0,
                                 init |-> FALSE, body_in_ref |-> TRUE, ref |-> message.body]]

\* C24 witness: a sendTransaction of value 2 with bounce off, signed at seqno
\* 1, has returned the hash of the 'Transfer' comment cell.
C24_Witness ==
    \E c \in CallIds :
        /\ calls[c].op = "sendTransaction"
        /\ calls[c].result = "hash,fee"
        /\ calls[c].message.value = 2
        /\ ~calls[c].message.bounce
        /\ calls[c].transfer[1].seqno = 1
        /\ calls[c].hash = Some([hash |-> [comment |-> "Transfer"]])

\* C25: the bounce flag of a native-transfer message is the bounceable option
\* whenever that option is given, true or false, and otherwise the
\* bounceability encoded in the destination address string.
C25_BounceFollowsOptionThenAddress ==
    \A c \in CallIds :
        (calls[c].op \in NativeOps /\ calls[c].input # Absent /\ calls[c].message.type # None) =>
            LET tx == calls[c].input[1] IN
            /\ tx.bounceable = Some(TRUE) => calls[c].message.bounce
            /\ tx.bounceable = Some(FALSE) => ~calls[c].message.bounce
            /\ tx.bounceable = Absent => calls[c].message.bounce = tx.to.isBounceable

\* C25 witness: a sendTransaction to a bounceable address with bounceable:
\* false is at contract.send with a transfer whose message does not bounce.
C25_Witness ==
    \E c \in CallIds :
        /\ calls[c].op = "sendTransaction"
        /\ calls[c].pc = "send"
        /\ calls[c].input[1].to.isBounceable
        /\ calls[c].input[1].bounceable = Some(FALSE)
        /\ ~calls[c].transfer[1].message.bounce

\* The frame in slot c holds a token-transfer message.
HoldsTokenMessage(c) == calls[c].op \in TokenOps /\ calls[c].message.type # None

\* C26: every token-transfer message is built with a newly generated query
\* id, not with a constant shared by successive transfers: two token-transfer
\* messages in flight carry different query ids.
C26_QueryIdIsNewForEachMessage ==
    \A c1, c2 \in CallIds :
        (c1 # c2 /\ HoldsTokenMessage(c1) /\ HoldsTokenMessage(c2))
            => calls[c1].message.body.query_id # calls[c2].message.body.query_id

\* C27: the hash a successful sendTransaction or transfer returns is the
\* hash of the message carried in the transfer this call handed to
\* contract.send, which is the message the call built from its argument.
C27_HashIsOfTheBroadcastMessage ==
    \A c \in CallIds :
        calls[c].result = "hash,fee" =>
            /\ calls[c].hash = Some(GetMessageHash(calls[c].transfer[1].message))
            /\ calls[c].transfer[1].message =
                  IF calls[c].op = "sendTransaction"
                  THEN GetTransactionMessage(calls[c].input[1])
                  ELSE GetTokenTransferMessage(calls[c].input[1],
                                               identity[calls[c].acct].address,
                                               JettonWalletAddress)

\* C27 witness: a transfer of amount 2 has returned the hash of the jetton
\* transfer body its broadcast carried.
C27_Witness ==
    \E c \in CallIds :
        /\ calls[c].op = "transfer"
        /\ calls[c].result = "hash,fee"
        /\ calls[c].input[1].amount = 2
        /\ calls[c].transfer[1].message.body.amount = 2
        /\ calls[c].hash = Some(CellHash(calls[c].transfer[1].message.body))

\* C28: every sendTransaction or transfer call issues at most one broadcast;
\* it returns { hash, fee } only after that broadcast has been taken by the
\* ledger; a rejected broadcast fails the call, which returns no result and
\* does not send again.
C28_OneBroadcastAwaited ==
    \A c \in CallIds :
        calls[c].op \in SendOps =>
            /\ Count(calls[c].rpcs, "send") <= 1
            /\ calls[c].result = "hash,fee" =>
                  /\ Count(calls[c].rpcs, "send") = 1
                  /\ calls[c].failed = None
                  /\ ledger.seqno > calls[c].transfer[1].seqno
            /\ calls[c].failed = "send" =>
                  /\ calls[c].pc = "done"
                  /\ calls[c].result = "RpcFailure"
                  /\ calls[c].hash = Absent

\* C28 witness: a transfer has returned its result after its one broadcast
\* was taken, while a sendTransaction whose broadcast was rejected has
\* failed without a result.
C28_Witness ==
    \E c, d \in CallIds :
        /\ calls[c].op = "transfer"
        /\ calls[c].result = "hash,fee"
        /\ Count(calls[c].rpcs, "send") = 1
        /\ ledger.seqno > calls[c].transfer[1].seqno
        /\ calls[d].op = "sendTransaction"
        /\ calls[d].failed = "send"
        /\ calls[d].result = "RpcFailure"
        /\ calls[d].hash = Absent

\* C29: a transfer signed with the null placeholder key is never passed to
\* contract.send: every transfer that sendTransaction or transfer broadcasts
\* was signed with the account's real secret key.
C29_NoNullKeyBroadcast ==
    \A c \in CallIds :
        Count(calls[c].rpcs, "send") > 0 =>
            /\ calls[c].op \in SendOps
            /\ calls[c].transfer[1].secretKey # SECRET_KEY_NULL
            /\ calls[c].transfer[1].secretKey = DerivedSecretKey

\* C29 witness: a sendTransaction and a transfer are both at contract.send
\* with transfers signed with the derived secret key.
C29_Witness ==
    \E c, d \in CallIds :
        /\ calls[c].op = "sendTransaction" /\ calls[c].pc = "send"
        /\ calls[d].op = "transfer" /\ calls[d].pc = "send"
        /\ calls[c].transfer[1].secretKey = DerivedSecretKey
        /\ calls[d].transfer[1].secretKey = DerivedSecretKey

\* The frame in slot c is a sending call that was made before its account
\* was disposed and is still in flight now that the key buffer is zeroed:
\* dispose() ran while it was suspended at a ledger call.
DisposedInFlight(c) ==
    /\ calls[c].op \in SendOps
    /\ calls[c].pc \notin {"idle", "done"}
    /\ ~calls[c].startedDisposed
    /\ keyPair[calls[c].acct].buffer = "zeroed"

\* The step signs in slot c: the frame gets its transfer.
Signs(c) == calls[c].transfer = Absent /\ calls'[c].transfer # Absent

\* The step ends the call in slot c.
Ends(c) == calls[c].pc # "done" /\ calls'[c].pc = "done"

\* C30 as stated: a sending call that dispose() overtook while suspended
\* either fails with the key-size error without broadcasting (it had not
\* signed yet) or completes its broadcast with the transfer it had signed
\* with the intact key; it never signs with a zeroed key buffer.
C30_DisposeInFlightKeySizeErrorOrBroadcast ==
    [][\A c \in CallIds :
          /\ (Signs(c) /\ calls[c].op \in SendOps)
                => keyPair[calls[c].acct].buffer = "intact"
          /\ (DisposedInFlight(c) /\ Ends(c)) =>
                IF calls[c].transfer = Absent
                THEN /\ calls'[c].result = "KeySizeError"
                     /\ Count(calls'[c].rpcs, "send") = 0
                ELSE /\ calls'[c].result = "hash,fee"
                     /\ calls'[c].transfer[1].secretKey = DerivedSecretKey]_vars

\* C30 amended: such a call never signs with a zeroed key buffer.  If it had
\* not signed yet it does not broadcast, and fails with the key-size error or
\* with the failure of a ledger call made before signing.  If it had signed,
\* its transfer carries the intact key, and it ends as a call on an
\* undisposed account does: with its result, with the failure of the fee
\* estimate or of the broadcast, or at transfer's fee cap.
C30_DisposeInFlightNeverSignsZeroed ==
    [][\A c \in CallIds :
          /\ (Signs(c) /\ calls[c].op \in SendOps)
                => keyPair[calls[c].acct].buffer = "intact"
          /\ (DisposedInFlight(c) /\ Ends(c)) =>
                IF calls[c].transfer = Absent
                THEN /\ calls'[c].result \in {"KeySizeError", "RpcFailure"}
                     /\ calls'[c].result = "RpcFailure"
                            => calls'[c].failed \in {"callGetMethod", "getSeqno"}
                     /\ Count(calls'[c].rpcs, "send") = 0
                ELSE /\ calls'[c].transfer[1].secretKey = DerivedSecretKey
                     /\ calls'[c].result \in {"hash,fee", "RpcFailure", "ExceededMaxFee"}
                     /\ calls'[c].result = "RpcFailure"
                            => calls'[c].failed \in
                                  {"getContractState", "estimateExternalMessageFee", "send"}
                     /\ calls'[c].result = "ExceededMaxFee" => calls'[c].op = "transfer"]_vars

\* C30 witness: dispose() has returned in one slot while a transfer begun
\* before it has gone on to contract.send with a transfer signed with the
\* intact key; the account's key buffer is zeroed by now.
C30_Witness ==
    \E c, d \in CallIds :
        /\ calls[d].op = "dispose" /\ calls[d].result = "returned"
        /\ calls[c].op = "transfer" /\ calls[c].pc = "send"
        /\ calls[c].acct = calls[d].acct
        /\ ~calls[c].startedDisposed
        /\ keyPair[calls[c].acct].buffer = "zeroed"
        /\ calls[c].transfer[1].secretKey = DerivedSecretKey
====
